---- MODULE Spec2Model ----
(***************************************************************************)
(* Model of mhtml_converter: MHTMLParser (parser.py) and MHTMLSplitter     *)
(* (splitter.py).                                                          *)
(*                                                                         *)
(* Text is modelled at character level: a Python str is a sequence of      *)
(* one-character strings.  Sizes are byte counts.                          *)
(***************************************************************************)
EXTENDS Integers, Sequences, FiniteSets, TLC

VARIABLES
    \* ---- MHTMLSplitter._split_large_file (splitter.py:60-101) ----
    max_size_mb,      \* self.max_size_mb
    image_sizes,      \* what os.path.exists/getsize answer for a registry path
    html_lines,       \* the lines of html_content.split('\n') read so far
    current_size,     \* local current_size
    current_content,  \* local current_content
    file_counter,     \* local file_counter
    output_files,     \* the files written, in order: [counter, buffer]
    \* ---- MHTMLSplitter._save_html_file (splitter.py:123-132) ----
    save_content,     \* parameter content
    save_written,     \* what write_file was handed, "" before the call
    \* ---- MHTMLParser (parser.py) ----
    mhtml_content,    \* self.mhtml_content: the lines of the text; no line
                      \* for None and for ""
    doc,              \* the parts the text of mhtml_content was written from
    decode_images,    \* self.decode_images
    dataset,          \* self.dataset
    boundary,         \* self.boundary; "" for None as well
    missing_images,   \* self._missing_images
    image_paths,      \* self._image_paths, in insertion order
    images_dir,       \* the files of output_dir: filename -> bytes
    write_failed,     \* dataset indices whose open/write raised in the last
                      \* extract_images
    ret,              \* what the last operation returned or raised
    \* ---- the loop of MHTMLParser.parse (parser.py:230-254) ----
    line_index,       \* how many of the lines the for loop has read
    cur_part,         \* local current_part
    cur_in_content,   \* local in_content
    processed,        \* the buffers handed to _process_part, in order
    pc                \* position in the running operation

splitVars == <<max_size_mb, image_sizes, html_lines, current_size,
               current_content, file_counter, output_files>>
saveVars == <<save_content, save_written>>
segmentVars == <<line_index, cur_part, cur_in_content, processed>>
parserVars == <<mhtml_content, doc, decode_images, dataset, boundary,
                missing_images, images_dir, write_failed, ret, segmentVars>>

vars == <<splitVars, saveVars, parserVars, image_paths, pc>>

None == "None"

\* No document: the parser was constructed without text.
NoDoc == [decl |-> "absent", parts |-> <<>>]

\* Nothing was called yet.
NoRet == [op |-> "init", raised |-> None, value |-> <<>>]

\* ------------------------------------------------------------------------
\* Bounds
\* ------------------------------------------------------------------------
MaxLines == 7
MaxLineUnits == 3
MaxImageUnits == 2

\* ------------------------------------------------------------------------
\* Generic helpers
\* ------------------------------------------------------------------------
RECURSIVE SumSeq(_)
SumSeq(s) == IF s = <<>> THEN 0 ELSE Head(s) + SumSeq(Tail(s))

\* ------------------------------------------------------------------------
\* Python str operations on character sequences
\* ------------------------------------------------------------------------
UpperCase == <<"A","B","C","D","E","F","G","H","I","J","K","L","M",
               "N","O","P","Q","R","S","T","U","V","W","X","Y","Z">>
LowerCase == <<"a","b","c","d","e","f","g","h","i","j","k","l","m",
               "n","o","p","q","r","s","t","u","v","w","x","y","z">>

UpperToLower ==
    [c \in {UpperCase[i] : i \in 1..26} |->
        LowerCase[CHOOSE i \in 1..26 : UpperCase[i] = c]]

\* str.lower() of one character
Lower(c) == IF c \in DOMAIN UpperToLower THEN UpperToLower[c] ELSE c

ToLower(s) == [i \in 1..Len(s) |-> Lower(s[i])]

\* s.startswith(p)
StartsWith(s, p) == Len(s) >= Len(p) /\ SubSeq(s, 1, Len(p)) = p

\* p occurs in s at index i
OccursAt(s, p, i) ==
    /\ i >= 1
    /\ i + Len(p) - 1 <= Len(s)
    /\ SubSeq(s, i, i + Len(p) - 1) = p

\* p in s
Occurs(s, p) == \E i \in 1..(Len(s) - Len(p) + 1) : OccursAt(s, p, i)

\* p in s, compared case-insensitively
OccursI(s, p) == Occurs(ToLower(s), ToLower(p))

\* number of indices at which p occurs in s
Count(s, p) == Cardinality({i \in 1..(Len(s) - Len(p) + 1) : OccursAt(s, p, i)})

CountI(s, p) == Count(ToLower(s), ToLower(p))

\* s.replace(old, new) for a non-empty old: leftmost, non-overlapping.
RECURSIVE StrReplace(_, _, _)
StrReplace(s, old, new) ==
    IF Len(s) < Len(old) THEN s
    ELSE IF StartsWith(s, old)
         THEN new \o StrReplace(SubSeq(s, Len(old) + 1, Len(s)), old, new)
         ELSE <<Head(s)>> \o StrReplace(Tail(s), old, new)

\* The scan of re.sub: low is s in lower case, lp the pattern in lower case.
RECURSIVE ReSubScan(_, _, _, _)
ReSubScan(lp, repl, s, low) ==
    IF Len(s) < Len(lp) THEN s
    ELSE IF SubSeq(low, 1, Len(lp)) = lp
         THEN repl \o ReSubScan(lp, repl, SubSeq(s, Len(lp) + 1, Len(s)),
                                SubSeq(low, Len(lp) + 1, Len(low)))
         ELSE <<Head(s)>> \o ReSubScan(lp, repl, Tail(s), Tail(low))

\* re.sub(pattern, repl, s, flags=re.IGNORECASE) for the re.escape of a
\* non-empty literal: leftmost, non-overlapping, case-insensitive.
ReSubI(pattern, repl, s) == ReSubScan(ToLower(pattern), repl, s, ToLower(s))

IsSpace(c) == c \in {" ", "\n", "\t", "\r"}

\* ''.join(s.split())
RemoveWhitespace(s) == SelectSeq(s, LAMBDA c : ~IsSpace(c))

\* s.strip()
RECURSIVE LStrip(_)
LStrip(s) == IF s # <<>> /\ IsSpace(Head(s)) THEN LStrip(Tail(s)) ELSE s

RECURSIVE RStrip(_)
RStrip(s) ==
    IF s # <<>> /\ IsSpace(s[Len(s)]) THEN RStrip(SubSeq(s, 1, Len(s) - 1))
    ELSE s

Strip(s) == RStrip(LStrip(s))

\* '\n'.join(lines)
RECURSIVE JoinLines(_)
JoinLines(lines) ==
    IF lines = <<>> THEN <<>>
    ELSE IF Len(lines) = 1 THEN lines[1]
    ELSE lines[1] \o <<"\n">> \o JoinLines(Tail(lines))

\* index of the last occurrence of character c in s, 0 if none
LastIndexOf(s, c) ==
    IF \E i \in 1..Len(s) : s[i] = c
    THEN CHOOSE i \in 1..Len(s) :
            s[i] = c /\ \A j \in (i + 1)..Len(s) : s[j] # c
    ELSE 0

\* s.split(sep)[-1] for a one-character sep
LastSegment(s, sep) == SubSeq(s, LastIndexOf(s, sep) + 1, Len(s))

\* os.path.splitext(s)[0] for an s without path separator: the extension
\* starts at the last dot, unless only dots come before it.
SplitExtRoot(s) ==
    LET d == LastIndexOf(s, ".") IN
    IF d = 0 \/ (\A j \in 1..(d - 1) : s[j] = ".") THEN s
    ELSE SubSeq(s, 1, d - 1)

\* ------------------------------------------------------------------------
\* base64 and md5
\* ------------------------------------------------------------------------
Base64Alphabet ==
    UpperCase \o LowerCase
    \o <<"0", "1", "2", "3", "4", "5", "6", "7", "8", "9", "+", "/">>

IsBase64Digit(c) == \E i \in 1..64 : Base64Alphabet[i] = c

\* The value of a base64 digit ('A' is 0 ... '/' is 63).
B64Val(c) == (CHOOSE i \in 1..64 : Base64Alphabet[i] = c) - 1

\* The loop of binascii.a2b_base64 without strict mode: quad_pos is the
\* place in the group of four digits, leftchar the bits not yet written,
\* pads the '=' signs counted, out the bytes so far.  A character that is
\* no digit is skipped; enough '=' signs from the third place of a group on
\* end the data; input that ends inside a group is an error.
RECURSIVE B64Scan(_, _, _, _, _)
B64Scan(s, quad_pos, leftchar, pads, out) ==
    IF s = <<>>
    THEN IF quad_pos = 0 THEN [ok |-> TRUE, bytes |-> out]
         ELSE [ok |-> FALSE, bytes |-> <<>>]
    ELSE IF Head(s) = "="
    THEN IF quad_pos >= 2 /\ quad_pos + pads + 1 >= 4
         THEN [ok |-> TRUE, bytes |-> out]
         ELSE B64Scan(Tail(s), quad_pos, leftchar,
                      IF quad_pos >= 2 THEN pads + 1 ELSE pads, out)
    ELSE IF ~IsBase64Digit(Head(s))
    THEN B64Scan(Tail(s), quad_pos, leftchar, pads, out)
    ELSE LET v == B64Val(Head(s)) IN
         CASE quad_pos = 0 -> B64Scan(Tail(s), 1, v, 0, out)
           [] quad_pos = 1 ->
                B64Scan(Tail(s), 2, v % 16, 0,
                        Append(out, leftchar * 4 + v \div 16))
           [] quad_pos = 2 ->
                B64Scan(Tail(s), 3, v % 4, 0,
                        Append(out, leftchar * 16 + v \div 4))
           [] OTHER ->
                B64Scan(Tail(s), 0, 0, 0, Append(out, leftchar * 64 + v))

\* base64.b64decode(s): the bytes, or binascii.Error.
B64Decode(s) == B64Scan(s, 0, 0, 0, <<>>)

\* hashlib.md5(content.encode()).hexdigest()[:8], tabulated for the payloads
\* of the model.
Md5Table == {
    <<<<"H", "O", "G", "B">>, <<"3", "2", "2", "e", "8", "9", "1", "8">>>>,
    <<<<"L", "H", "B", "H">>, <<"3", "2", "2", "e", "8", "9", "1", "8">>>>,
    <<<<"H", "O", "\n", "G", "B">>, <<"8", "7", "3", "a", "9", "a", "d", "f">>>>,
    <<<<"H", "O", "G">>, <<"e", "a", "6", "9", "2", "8", "c", "3">>>>,
    <<<<>>, <<"d", "4", "1", "d", "8", "c", "d", "9">>>> }

Md5Hex8(content) == (CHOOSE e \in Md5Table : e[1] = content)[2]

\* ------------------------------------------------------------------------
\* MHTMLSplitter
\* ------------------------------------------------------------------------
\* 1024 * 1024 of splitter.py:77
MB == 1024 * 1024

\* Line lengths and image sizes are drawn in steps of half a megabyte.
Unit == MB \div 2

\* self.max_size_mb * 1024 * 1024 (splitter.py:77)
MaxBytes(mb) == mb * MB

\* The resource ids of the registry handed to _split_large_file.
ImageNames == {"a"}

\* A line of the rendered HTML: its UTF-8 byte length (splitter.py:73) and
\* the registry names that occur in it as substrings (splitter.py:119).
\* A line that holds a name is at least one unit long.
Lines ==
    { [len |-> k * Unit, refs |-> r] :
        k \in 0..MaxLineUnits, r \in SUBSET ImageNames } \
    { [len |-> 0, refs |-> r] : r \in (SUBSET ImageNames) \ {{}} }

\* _calculate_line_images_size (splitter.py:115-121): for every registry
\* entry whose name occurs in the line and whose path exists, its size.
\* sizes[n] = -1 stands for os.path.exists(img_path) = False.
RECURSIVE SumOver(_, _)
SumOver(S, f) ==
    IF S = {} THEN 0
    ELSE LET x == CHOOSE y \in S : TRUE IN f[x] + SumOver(S \ {x}, f)

CalculateLineImagesSize(line, sizes) ==
    SumOver({n \in DOMAIN sizes : n \in line.refs /\ sizes[n] >= 0}, sizes)

\* line_size + image_size of one loop iteration (splitter.py:73-74, 91)
LineAccounted(line, sizes) == line.len + CalculateLineImagesSize(line, sizes)

\* The flush test of splitter.py:77, with the image size left out.
NeedNewFileNoImage(cur, line_size, image_size, mb) ==
    cur + line_size > MaxBytes(mb)

\* The flush test of splitter.py:77.
NeedNewFile(cur, line_size, image_size, mb) ==
    cur + line_size + image_size > MaxBytes(mb)

\* _save_html_file as seen by the split loop: one more file on disk, named
\* <base_name>_<counter>.html, holding the buffered lines (splitter.py:79-83).
WriteSplitFile(files, counter, buffer) ==
    Append(files, [counter |-> counter, buffer |-> buffer])

\* The accounted size of everything read so far.
TotalAccounted == SumSeq([i \in 1..Len(html_lines) |->
                            LineAccounted(html_lines[i], image_sizes)])

\* Inputs are capped at 5.5 megabytes accounted.
TotalCap == 11 * Unit

\* The variables of the operations a specification does not run.
IdleSplit ==
    /\ max_size_mb = 0
    /\ image_sizes = <<>>
    /\ html_lines = <<>>
    /\ current_size = 0
    /\ current_content = <<>>
    /\ file_counter = 1
    /\ output_files = <<>>

IdleSave ==
    /\ save_content = <<>>
    /\ save_written = <<>>

IdleSegment ==
    /\ line_index = 0
    /\ cur_part = <<>>
    /\ cur_in_content = FALSE
    /\ processed = <<>>

IdleParser ==
    /\ IdleSegment
    /\ mhtml_content = <<>>
    /\ doc = NoDoc
    /\ decode_images = TRUE
    /\ dataset = <<>>
    /\ boundary = <<>>
    /\ missing_images = <<>>
    /\ image_paths = <<>>
    /\ images_dir = <<>>
    /\ write_failed = {}
    /\ ret = NoRet

InitSplit ==
    /\ max_size_mb \in {0, 1}
    /\ image_sizes \in [ImageNames -> {-1} \cup {k * Unit : k \in 1..MaxImageUnits}]
    /\ html_lines = <<>>
    /\ current_size = 0
    /\ current_content = <<>>
    /\ file_counter = 1
    /\ output_files = <<>>
    /\ pc = "loop"
    /\ IdleSave /\ IdleParser

\* One iteration of the for loop of _split_large_file (splitter.py:72-91).
SplitLine(line) ==
    /\ pc = "loop"
    /\ Len(html_lines) < MaxLines
    /\ TotalAccounted + LineAccounted(line, image_sizes) <= TotalCap
    /\ LET line_size == line.len
           image_size == CalculateLineImagesSize(line, image_sizes)
       IN  IF NeedNewFile(current_size, line_size, image_size, max_size_mb)
           THEN /\ output_files' = WriteSplitFile(output_files, file_counter,
                                                  current_content)
                /\ current_content' = <<line>>
                /\ current_size' = line_size + image_size
                /\ file_counter' = file_counter + 1
           ELSE /\ current_content' = Append(current_content, line)
                /\ current_size' = current_size + line_size + image_size
                /\ UNCHANGED <<output_files, file_counter>>
    /\ html_lines' = Append(html_lines, line)
    /\ UNCHANGED <<max_size_mb, image_sizes, pc>>
    /\ UNCHANGED <<saveVars, parserVars, image_paths>>

\* After the loop (splitter.py:93-101).  split('\n') yields at least one line.
SplitFinish ==
    /\ pc = "loop"
    /\ Len(html_lines) >= 1
    /\ IF current_content # <<>>
       THEN output_files' = WriteSplitFile(output_files, file_counter,
                                           current_content)
       ELSE UNCHANGED output_files
    /\ pc' = "done"
    /\ UNCHANGED <<max_size_mb, image_sizes, html_lines, current_size,
                   current_content, file_counter>>
    /\ UNCHANGED <<saveVars, parserVars, image_paths>>

NextSplit ==
    \/ \E line \in Lines : SplitLine(line)
    \/ SplitFinish

SpecSplit == InitSplit /\ [][NextSplit]_vars

\* ------------------------------------------------------------------------
\* Properties of _split_large_file
\* ------------------------------------------------------------------------
FileAccounted(buffer) ==
    SumSeq([i \in 1..Len(buffer) |-> LineAccounted(buffer[i], image_sizes)])

Oversized(line) == LineAccounted(line, image_sizes) > MaxBytes(max_size_mb)

\* C1: every file written by the multi-file path accounts for at most
\* max_size bytes, unless its buffer is one single line that alone exceeds
\* max_size; a line that alone exceeds max_size is whole in a buffer of its
\* own, in the files written and in the buffer still open.
C1_FileSizeBounded ==
    /\ \A i \in 1..Len(output_files) :
          LET b == output_files[i].buffer IN
          /\ \/ FileAccounted(b) <= MaxBytes(max_size_mb)
             \/ Len(b) = 1 /\ Oversized(b[1])
          /\ \A j \in 1..Len(b) : Oversized(b[j]) => Len(b) = 1
    /\ \A j \in 1..Len(current_content) :
          Oversized(current_content[j]) => Len(current_content) = 1
    /\ pc = "done" =>
          \A k \in 1..Len(html_lines) :
              Oversized(html_lines[k]) =>
                  \E i \in 1..Len(output_files) :
                      output_files[i].buffer = <<html_lines[k]>>

\* A finished split with a file of several lines, a file that is one
\* oversized line, and an image that counted.
C1_Witness ==
    /\ pc = "done"
    /\ max_size_mb = 1
    /\ \E i \in 1..Len(output_files) :
          /\ Len(output_files[i].buffer) = 1
          /\ Oversized(output_files[i].buffer[1])
          /\ CalculateLineImagesSize(output_files[i].buffer[1], image_sizes) > 0
    /\ \E i \in 1..Len(output_files) :
          /\ Len(output_files[i].buffer) >= 2
          /\ FileAccounted(output_files[i].buffer) = MaxBytes(max_size_mb)

NoOversizedLine == \A k \in 1..Len(html_lines) : ~Oversized(html_lines[k])

FiveAndAHalf == 2 * TotalAccounted = 11 * MaxBytes(max_size_mb)

\* C10 as stated: a finished split of an input accounting for 5.5 x max_size
\* (max_size > 0) has at least 5 and at most 6 output files.
C10_Original ==
    (pc = "done" /\ max_size_mb > 0 /\ FiveAndAHalf) =>
        (Len(output_files) >= 5 /\ Len(output_files) <= 6)

\* C10 amended: when max_size > 0 and no single line alone exceeds max_size,
\* a finished split of an input accounting for 5.5 x max_size has at least 6
\* output files, any two consecutive files together account for more than
\* max_size, and so there are at most 11 files.
C10_Amended ==
    (pc = "done" /\ max_size_mb > 0 /\ FiveAndAHalf /\ NoOversizedLine) =>
        /\ Len(output_files) >= 6
        /\ Len(output_files) <= 11
        /\ \A i \in 1..(Len(output_files) - 1) :
              FileAccounted(output_files[i].buffer)
                + FileAccounted(output_files[i + 1].buffer)
                  > MaxBytes(max_size_mb)

\* A finished split of 5.5 x max_size without oversized line, in 7 files.
C10_Witness ==
    /\ pc = "done" /\ max_size_mb > 0 /\ FiveAndAHalf /\ NoOversizedLine
    /\ Len(output_files) = 7

\* ------------------------------------------------------------------------
\* MHTMLParser: generated filenames and the Image Registry
\* ------------------------------------------------------------------------
s_image_slash == <<"i", "m", "a", "g", "e", "/">>
s_text_html == <<"t", "e", "x", "t", "/", "h", "t", "m", "l">>
s_text_plain == <<"t", "e", "x", "t", "/", "p", "l", "a", "i", "n">>
s_image_png == <<"i", "m", "a", "g", "e", "/", "p", "n", "g">>
s_image_gif == <<"i", "m", "a", "g", "e", "/", "g", "i", "f">>

\* content_type.startswith('image/')
IsImageType(content_type) == StartsWith(content_type, s_image_slash)

\* _get_image_extension (parser.py:286-299), for the types of the model
GetImageExtension(content_type) ==
    IF ToLower(content_type) = s_image_png THEN <<".", "p", "n", "g">>
    ELSE IF ToLower(content_type) = s_image_gif THEN <<".", "g", "i", "f">>
    ELSE <<".", "i", "m", "g">>

\* re.sub(r'[<>:"/\\|?*]', '_', original_name) (parser.py:37)
SafeChars(name) ==
    [i \in 1..Len(name) |->
        IF name[i] \in {"<", ">", ":", "\"", "/", "\\", "|", "?", "*"}
        THEN "_" ELSE name[i]]

\* safe_name of parser.py:37-41
SafeName(original_name) ==
    SplitExtRoot(LastSegment(LastSegment(SafeChars(original_name), "/"), "\\"))

\* _generate_image_filename (parser.py:28-44)
GenerateImageFilename(original_name, content, content_type) ==
    SafeName(original_name) \o <<"_">> \o Md5Hex8(content)
        \o GetImageExtension(content_type)

\* A dict in insertion order: a sequence of [name, value] with distinct names.
DictHas(d, name) == \E i \in 1..Len(d) : d[i].name = name

DictGet(d, name) == d[CHOOSE i \in 1..Len(d) : d[i].name = name].value

\* d[name] = value
DictSet(d, name, value) ==
    IF DictHas(d, name)
    THEN [i \in 1..Len(d) |->
            IF d[i].name = name THEN [name |-> name, value |-> value] ELSE d[i]]
    ELSE Append(d, [name |-> name, value |-> value])


\* ------------------------------------------------------------------------
\* MHTMLSplitter._save_html_file
\* ------------------------------------------------------------------------
s_cid == <<"c", "i", "d", ":">>
s_images_slash == <<"i", "m", "a", "g", "e", "s", "/">>
Quote == <<"\"">>

\* os.path.join("images", os.path.basename(img_path)) (splitter.py:127)
RelativePath(img_path) == s_images_slash \o LastSegment(img_path, "/")

\* One round of the loop of splitter.py:126-129.
SaveRewriteOne(content, img_name, img_path) ==
    StrReplace(
        StrReplace(content, s_cid \o img_name, RelativePath(img_path)),
        Quote \o img_name \o Quote,
        Quote \o RelativePath(img_path) \o Quote)

\* The loop of splitter.py:126-129 over image_paths.items().
RECURSIVE SaveRewrite(_, _)
SaveRewrite(content, registry) ==
    IF registry = <<>> THEN content
    ELSE SaveRewrite(
            SaveRewriteOne(content, registry[1].name, registry[1].value),
            Tail(registry))

\* The resource ids and the payload of the registries handed to
\* _save_html_file.
SaveNames == {<<"a">>, <<"a", "b">>}

SaveFilename(name) == GenerateImageFilename(name, <<"H", "O", "G", "B">>, s_image_png)

\* Every registry over SaveNames, in every iteration order.
SaveRegistries ==
    { r \in UNION { [1..n -> { [name |-> nm, value |-> SaveFilename(nm)] :
                                 nm \in SaveNames }] : n \in 0..Cardinality(SaveNames) } :
        \A i, j \in 1..Len(r) : i # j => r[i].name # r[j].name }

\* The pieces the content of a file is put together from.
SaveFragments == { s_cid, <<"a">>, <<"b">>, Quote, <<" ">> }

MaxFragments == 5

RECURSIVE Concat(_)
Concat(ss) == IF ss = <<>> THEN <<>> ELSE Head(ss) \o Concat(Tail(ss))

SaveContents ==
    { Concat(fs) : fs \in UNION { [1..n -> SaveFragments] : n \in 0..MaxFragments } }

InitSave ==
    /\ save_content \in SaveContents
    /\ image_paths \in SaveRegistries
    /\ save_written = <<>>
    /\ pc = "save"
    /\ IdleSplit
    /\ mhtml_content = <<>> /\ doc = NoDoc /\ decode_images = TRUE
    /\ dataset = <<>> /\ boundary = <<>> /\ missing_images = <<>>
    /\ images_dir = <<>> /\ write_failed = {} /\ ret = NoRet
    /\ IdleSegment

\* _save_html_file (splitter.py:123-132)
SaveHtmlFile ==
    /\ pc = "save"
    /\ save_written' = SaveRewrite(save_content, image_paths)
    /\ pc' = "done"
    /\ UNCHANGED <<save_content, image_paths, splitVars, parserVars>>

NextSave == SaveHtmlFile

SpecSave == InitSave /\ [][NextSave]_vars

\* C2: in a written file every quoted reference "cid:<r>" to an id r of the
\* registry has become "images/<filename registered for r>", whatever the
\* other ids of the registry and their order.
C2_EachReferenceOwnFile ==
    pc = "done" =>
        \A i \in 1..Len(image_paths) :
            LET r == image_paths[i].name
                f == image_paths[i].value
            IN  Occurs(save_content, Quote \o s_cid \o r \o Quote) =>
                    Occurs(save_written, Quote \o s_images_slash \o f \o Quote)

\* ------------------------------------------------------------------------
\* MHTMLParser: the text of a document
\* ------------------------------------------------------------------------
\* The text is a sequence of lines (str.splitlines, parser.py:224).  A line
\* is [k, v]: k says which of the words the parser looks for the line holds,
\* v is the value the parser extracts from it.
\*   decl   Content-Type: multipart/related; boundary="<v>"
\*   other  MIME-Version: 1.0
\*   delim  --<v>
\*   ctype  Content-Type: <v>
\*   cte    Content-Transfer-Encoding: <v>
\*   cloc   Content-Location: <v>
\*   fname  Content-Disposition: inline; filename="<v>"
\*   cid    Content-ID: <<v>>
\*   blank  the empty line
\*   data   <v>
Line(k, v) == [k |-> k, v |-> v]

BoundaryToken == <<"A", "A", "A">>

s_base64 == <<"b", "a", "s", "e", "6", "4">>
s_quoted_printable == <<"q", "u", "o", "t", "e", "d", "-", "p", "r", "i", "n", "t", "a", "b", "l", "e">>

\* The text of a line, as _process_part appends it to content_lines.
LineText(line) ==
    CASE line.k = "data" -> line.v
      [] line.k = "blank" -> <<>>
      [] line.k = "delim" -> <<"-", "-">> \o line.v
      [] line.k = "ctype" -> <<"C", "o", "n", "t", "e", "n", "t", "-", "T", "y", "p", "e", ":", " ">> \o line.v
      [] line.k = "cte" -> <<"C", "o", "n", "t", "e", "n", "t", "-", "T", "r", "a", "n", "s", "f", "e", "r", "-", "E", "n", "c", "o", "d", "i", "n", "g", ":", " ">> \o line.v
      [] line.k = "cloc" -> <<"C", "o", "n", "t", "e", "n", "t", "-", "L", "o", "c", "a", "t", "i", "o", "n", ":", " ">> \o line.v
      [] line.k = "cid" -> <<"C", "o", "n", "t", "e", "n", "t", "-", "I", "D", ":", " ", "<">> \o line.v \o <<">">>
      [] line.k = "fname" -> <<"f", "i", "l", "e", "n", "a", "m", "e", "=", "\"">> \o line.v \o Quote
      [] line.k = "decl" -> <<"b", "o", "u", "n", "d", "a", "r", "y", "=", "\"">> \o line.v \o Quote
      [] OTHER -> <<"M", "I", "M", "E", "-", "V", "e", "r", "s", "i", "o", "n", ":", " ", "1", ".", "0">>

\* A part as it is written into a document: its headers (an empty value
\* leaves the header out) and the lines of its body.
PartLines(part) ==
    (IF part.ctype # <<>> THEN <<Line("ctype", part.ctype)>> ELSE <<>>)
    \o (IF part.cte # <<>> THEN <<Line("cte", part.cte)>> ELSE <<>>)
    \o (IF part.cid # <<>> THEN <<Line("cid", part.cid)>> ELSE <<>>)
    \o <<Line("blank", <<>>)>>
    \o [i \in 1..Len(part.payload) |-> Line("data", part.payload[i])]

RECURSIVE PartsLines(_)
PartsLines(parts) ==
    IF parts = <<>> THEN <<>>
    ELSE <<Line("delim", BoundaryToken)>> \o PartLines(Head(parts))
            \o PartsLines(Tail(parts))

\* The text of a document: the top headers, with or without a boundary
\* declaration, then the parts between delimiter lines.
RenderDoc(d) ==
    <<Line("other", <<>>)>>
    \o (CASE d.decl = "ok" -> <<Line("decl", BoundaryToken)>>
          [] d.decl = "empty" -> <<Line("decl", <<>>)>>
          [] OTHER -> <<>>)
    \o <<Line("blank", <<>>)>>
    \o PartsLines(d.parts)
    \o <<Line("delim", BoundaryToken)>>

\* ------------------------------------------------------------------------
\* MHTMLParser._process_part and the decoders
\* ------------------------------------------------------------------------
\* bytes.decode('utf-8', errors='ignore') for bytes that are upper-case
\* ASCII letters; the text parts of the model decode to nothing else.
Utf8DecodeIgnore(bytes) ==
    LET ascii == SelectSeq(bytes, LAMBDA b : b >= 65 /\ b <= 90)
    IN  [i \in 1..Len(ascii) |-> UpperCase[ascii[i] - 64]]

\* _decode_base64 (parser.py:262-268): on an error the data comes back with
\* its whitespace removed (parser.py:265 ran before the error).
DecodeBase64(data) ==
    LET stripped == RemoveWhitespace(data)
        r == B64Decode(stripped)
    IN  IF r.ok THEN Utf8DecodeIgnore(r.bytes) ELSE stripped

HexDigits == <<"0","1","2","3","4","5","6","7","8","9","A","B","C","D","E","F">>
IsHex(c) == \E i \in 1..16 : HexDigits[i] = c
HexVal(c) == (CHOOSE i \in 1..16 : HexDigits[i] = c) - 1

\* quopri.decodestring: =XX is the byte XX, = before a line end is a soft
\* line break, everything else stands for itself.
RECURSIVE QuopriDecode(_)
QuopriDecode(s) ==
    IF s = <<>> THEN <<>>
    ELSE IF Head(s) = "=" /\ Len(s) >= 3 /\ IsHex(s[2]) /\ IsHex(s[3])
         THEN Utf8DecodeIgnore(<<HexVal(s[2]) * 16 + HexVal(s[3])>>)
                \o QuopriDecode(SubSeq(s, 4, Len(s)))
    ELSE IF Head(s) = "=" /\ Len(s) >= 2 /\ s[2] = "\n"
         THEN QuopriDecode(SubSeq(s, 3, Len(s)))
    ELSE <<Head(s)>> \o QuopriDecode(Tail(s))

\* _decode_quoted_printable (parser.py:270-276)
DecodeQuotedPrintable(data) == QuopriDecode(data)

\* The local variables of _process_part before its first line
\* (parser.py:48-56).
PartStart ==
    [content_type |-> <<>>, content_location |-> <<>>,
     content_encoding |-> <<>>, filename |-> <<>>, content_id |-> <<>>,
     header_done |-> FALSE, content_lines |-> <<>>]

\* One round of the loop of parser.py:57-90.
PartStep(st, line) ==
    IF ~st.header_done
    THEN CASE line.k = "blank" -> [st EXCEPT !.header_done = TRUE]
           [] line.k = "ctype" -> [st EXCEPT !.content_type = line.v]
           [] line.k = "cloc" -> [st EXCEPT !.content_location = line.v]
           [] line.k = "cte" -> [st EXCEPT !.content_encoding = line.v]
           [] line.k = "fname" -> [st EXCEPT !.filename = line.v]
           [] line.k = "cid" -> [st EXCEPT !.content_id = line.v]
           [] OTHER -> st
    ELSE [st EXCEPT !.content_lines = Append(@, Strip(LineText(line)))]

RECURSIVE PartLoop(_, _)
PartLoop(st, lines) ==
    IF lines = <<>> THEN st ELSE PartLoop(PartStep(st, Head(lines)), Tail(lines))

\* a or b of Python, on strings
Or(a, b) == IF a # <<>> THEN a ELSE b

\* The decode policy of parser.py:94-99.
DecodeContent(content_type, content_encoding, content) ==
    IF ToLower(content_encoding) = s_base64
    THEN IF ~IsImageType(content_type) THEN DecodeBase64(content) ELSE content
    ELSE IF ToLower(content_encoding) = s_quoted_printable
         THEN DecodeQuotedPrintable(content)
         ELSE content

\* _process_part (parser.py:46-106): (content_type, resource_id, content)
ProcessPart(lines) ==
    LET st == PartLoop(PartStart, lines)
        content == JoinLines(st.content_lines)
    IN  [content_type |-> st.content_type,
         name |-> Or(st.content_id, Or(st.filename, st.content_location)),
         content |-> DecodeContent(st.content_type, st.content_encoding, content)]

\* ------------------------------------------------------------------------
\* MHTMLParser.parse
\* ------------------------------------------------------------------------
\* _find_boundary (parser.py:202-216): the value of the first line that
\* holds the word boundary; "" stands for None as well.
RECURSIVE FindBoundary(_)
FindBoundary(lines) ==
    IF lines = <<>> THEN <<>>
    ELSE IF Head(lines).k = "decl" THEN Head(lines).v
    ELSE FindBoundary(Tail(lines))

\* self.boundary in line (parser.py:234)
HoldsBoundary(line, b) == Occurs(LineText(line), b)

\* parser.py:235-241 and 248-254: a part buffer is processed and kept when
\* it has a content type or a resource id.
ClosePart(ds, current_part, in_content) ==
    IF current_part # <<>> /\ in_content
    THEN LET part_data == ProcessPart(current_part) IN
         IF part_data.content_type # <<>> \/ part_data.name # <<>>
         THEN Append(ds, part_data) ELSE ds
    ELSE ds

\* The loop of parser.py:233-246 and the last part of parser.py:248-254.
RECURSIVE Segment(_, _, _, _, _)
Segment(lines, b, current_part, in_content, ds) ==
    IF lines = <<>> THEN ClosePart(ds, current_part, in_content)
    ELSE IF HoldsBoundary(Head(lines), b)
         THEN Segment(Tail(lines), b, <<>>, TRUE,
                      ClosePart(ds, current_part, in_content))
         ELSE Segment(Tail(lines), b,
                      IF in_content THEN Append(current_part, Head(lines))
                      ELSE current_part,
                      in_content, ds)

\* ------------------------------------------------------------------------
\* MHTMLParser.extract_images
\* ------------------------------------------------------------------------
DecodeError == "Failed to decode/save image: Incorrect padding"
WriteError == "Failed to decode/save image: OSError"

\* The image parts extract_images works on (parser.py:114).
IsExtractable(part) == IsImageType(part.content_type) /\ part.name # <<>>

\* The indices of the dataset at which extract_images gets as far as
\* opening the file (parser.py:126).
WriteAttempts(ds) ==
    {i \in 1..Len(ds) :
        IsExtractable(ds[i]) /\ B64Decode(RemoveWhitespace(ds[i].content)).ok}

\* One round of the loop of parser.py:113-133, registering the name before
\* the decode and the write.
ExtractOneEager(st, part, failed) ==
    IF ~IsExtractable(part) THEN st
    ELSE
      LET filename == GenerateImageFilename(part.name, part.content,
                                            part.content_type)
          img == B64Decode(RemoveWhitespace(part.content))
          reg == [st EXCEPT !.paths = DictSet(@, part.name, filename)]
      IN  IF ~img.ok
          THEN [reg EXCEPT !.missing = DictSet(@, part.name, DecodeError)]
          ELSE IF failed
          THEN [reg EXCEPT !.missing = DictSet(@, part.name, WriteError)]
          ELSE [reg EXCEPT !.dir = DictSet(@, filename, img.bytes)]

\* One round of the loop of parser.py:113-133.  st holds _image_paths,
\* _missing_images and the files of output_dir; failed says that open or
\* write raises for this part.
ExtractOne(st, part, failed) ==
    IF ~IsExtractable(part) THEN st
    ELSE
      LET filename == GenerateImageFilename(part.name, part.content,
                                            part.content_type)
          img == B64Decode(RemoveWhitespace(part.content))
      IN  IF ~img.ok
          THEN [st EXCEPT !.missing = DictSet(@, part.name, DecodeError)]
          ELSE IF failed
          THEN [st EXCEPT !.missing = DictSet(@, part.name, WriteError)]
          ELSE [st EXCEPT !.dir = DictSet(@, filename, img.bytes),
                          !.paths = DictSet(@, part.name, filename)]

RECURSIVE ExtractLoop(_, _, _, _)
ExtractLoop(st, ds, i, fails) ==
    IF i > Len(ds) THEN st
    ELSE ExtractLoop(ExtractOne(st, ds[i], i \in fails), ds, i + 1, fails)

\* ------------------------------------------------------------------------
\* MHTMLParser.get_html
\* ------------------------------------------------------------------------
s_src_dq == <<"s", "r", "c", "=", "\"">>
s_src_sq == <<"s", "r", "c", "=", "'">>
s_dat == <<".", "d", "a", "t">>
Apos == <<"'">>

\* The six patterns of parser.py:141-148 for one name.
FixPatterns(name) ==
    << s_src_dq \o s_cid \o name \o Quote,
       s_src_dq \o name \o Quote,
       s_src_sq \o name \o Apos,
       s_src_dq \o s_cid \o name \o s_dat \o Quote,
       s_src_dq \o name \o s_dat \o Quote,
       s_src_sq \o name \o s_dat \o Apos >>

\* src="images/<filename>" (parser.py:153)
ImagesSrc(filename) == s_src_dq \o s_images_slash \o filename \o Quote

RECURSIVE SubAll(_, _, _)
SubAll(patterns, repl, html) ==
    IF patterns = <<>> THEN html
    ELSE SubAll(Tail(patterns), repl, ReSubI(Head(patterns), repl, html))

\* The loop of parser.py:139-156 over a registry.
RECURSIVE FixLoop(_, _)
FixLoop(html_content, registry) ==
    IF registry = <<>> THEN html_content
    ELSE FixLoop(
            SubAll(FixPatterns(registry[1].name),
                   ImagesSrc(registry[1].value), html_content),
            Tail(registry))

\* _fix_html_paths (parser.py:137-158)
FixHtmlPaths(html_content, registry) == FixLoop(html_content, registry)

\* The html part get_html picks (parser.py:166-169): the content of the
\* first part whose type is text/html, "" when there is none.
RECURSIVE FirstHtmlContent(_)
FirstHtmlContent(ds) ==
    IF ds = <<>> THEN <<>>
    ELSE IF Head(ds).content_type = s_text_html THEN Head(ds).content
    ELSE FirstHtmlContent(Tail(ds))

\* image_map of parser.py:176-178
RECURSIVE ImageMap(_, _)
ImageMap(ds, m) ==
    IF ds = <<>> THEN m
    ELSE ImageMap(Tail(ds),
                  IF IsImageType(Head(ds).content_type)
                  THEN DictSet(m, Head(ds).name,
                               [content_type |-> Head(ds).content_type,
                                content |-> Head(ds).content])
                  ELSE m)

\* data:<content_type>;base64,<content> (parser.py:183)
DataUri(content_type, content) ==
    <<"d", "a", "t", "a", ":">> \o content_type \o <<";", "b", "a", "s", "e", "6", "4", ",">> \o content

\* The loop of parser.py:181-195.
RECURSIVE EmbedImages(_, _, _)
EmbedImages(html_content, image_map, decode) ==
    IF image_map = <<>> THEN html_content
    ELSE LET name == image_map[1].name
             src == s_src_dq
                      \o DataUri(image_map[1].value.content_type,
                                 image_map[1].value.content)
                      \o Quote
         IN  EmbedImages(
                IF decode
                THEN ReSubI(s_src_dq \o name \o Quote, src,
                        ReSubI(s_src_dq \o s_cid \o name \o Quote, src,
                               html_content))
                ELSE html_content,
                Tail(image_map), decode)

NoHtmlError == "No HTML content found in MHTML file"
NoContentError == "No MHTML content set"
NoBoundaryError == "Could not find boundary in MHTML content"

\* ------------------------------------------------------------------------
\* MHTMLParser: the operations
\* ------------------------------------------------------------------------
Returned(op, value) == [op |-> op, raised |-> None, value |-> value]
Raised(op, error) == [op |-> op, raised |-> error, value |-> <<>>]

\* MHTMLParser(mhtml_content, decode_images) (parser.py:18-26); docs are
\* the documents the text may be, flags the values of decode_images.
InitParser(docs, flags) ==
    /\ doc \in docs \cup {NoDoc}
    /\ mhtml_content = IF doc = NoDoc THEN <<>> ELSE RenderDoc(doc)
    /\ decode_images \in flags
    /\ dataset = <<>>
    /\ boundary = <<>>
    /\ missing_images = <<>>
    /\ image_paths = <<>>
    /\ images_dir = <<>>
    /\ write_failed = {}
    /\ ret = NoRet
    /\ pc = "ready"
    /\ IdleSplit /\ IdleSave /\ IdleSegment

\* set_mhtml_content (parser.py:256-260); a document always has a line.
SetMhtmlContent(d) ==
    /\ pc = "ready"
    /\ mhtml_content' = RenderDoc(d)
    /\ doc' = d
    /\ ret' = Returned("set_mhtml_content", <<>>)
    /\ UNCHANGED <<decode_images, dataset, boundary, missing_images,
                   image_paths, images_dir, write_failed>>
    /\ UNCHANGED <<splitVars, saveVars, segmentVars, pc>>

\* The dataset is followed up to this many parts.
MaxDataset == 3

\* parse (parser.py:218-254)
Parse ==
    /\ pc = "ready"
    /\ IF mhtml_content = <<>>
       THEN /\ ret' = Raised("parse", NoContentError)
            /\ UNCHANGED <<boundary, dataset>>
       ELSE /\ boundary' = FindBoundary(mhtml_content)
            /\ IF boundary' = <<>>
               THEN /\ ret' = Raised("parse", NoBoundaryError)
                    /\ UNCHANGED dataset
               ELSE /\ dataset' = Segment(mhtml_content, boundary', <<>>,
                                          FALSE, dataset)
                    /\ Len(dataset') <= MaxDataset
                    /\ ret' = Returned("parse", <<>>)
    /\ UNCHANGED <<mhtml_content, doc, decode_images, missing_images,
                   image_paths, images_dir, write_failed>>
    /\ UNCHANGED <<splitVars, saveVars, segmentVars, pc>>

\* extract_images (parser.py:108-135); fails are the parts for which open
\* or write raises.
ExtractImages(fails) ==
    /\ pc = "ready"
    /\ fails \subseteq WriteAttempts(dataset)
    /\ LET st == ExtractLoop([paths |-> <<>>, missing |-> missing_images,
                              dir |-> images_dir], dataset, 1, fails)
       IN  /\ image_paths' = st.paths
           /\ missing_images' = st.missing
           /\ images_dir' = st.dir
           /\ ret' = Returned("extract_images", st.paths)
    /\ write_failed' = fails
    /\ UNCHANGED <<mhtml_content, doc, decode_images, dataset, boundary>>
    /\ UNCHANGED <<splitVars, saveVars, segmentVars, pc>>

\* get_html (parser.py:160-200)
GetHtml(embedded_images) ==
    /\ pc = "ready"
    /\ LET html_content == FirstHtmlContent(dataset) IN
       ret' = IF html_content = <<>>
              THEN [op |-> "get_html", embedded |-> embedded_images,
                    raised |-> NoHtmlError, value |-> <<>>]
              ELSE [op |-> "get_html", embedded |-> embedded_images,
                    raised |-> None,
                    value |->
                      IF embedded_images
                      THEN EmbedImages(html_content, ImageMap(dataset, <<>>),
                                       decode_images)
                      ELSE FixHtmlPaths(html_content, image_paths)]
    /\ UNCHANGED <<mhtml_content, doc, decode_images, dataset, boundary,
                   missing_images, image_paths, images_dir, write_failed>>
    /\ UNCHANGED <<splitVars, saveVars, segmentVars, pc>>

\* ------------------------------------------------------------------------
\* The documents of the model
\* ------------------------------------------------------------------------
Part(ctype, cte, cid, payload) ==
    [ctype |-> ctype, cte |-> cte, cid |-> cid, payload |-> payload]

s_x_uuencode == <<"x", "-", "u", "u", "e", "n", "c", "o", "d", "e">>

HtmlRef == Part(s_text_html, <<>>, <<>>, <<<<"<", "i", "m", "g", " ", "s", "r", "c", "=", "\"", "c", "i", "d", ":", "a", "\"", ">">>>>)
HtmlEmpty == Part(s_text_html, <<>>, <<>>, <<>>)
HtmlPlain == Part(s_text_html, <<>>, <<>>, <<<<"<", "p", ">">>>>)
ImgOk == Part(s_image_png, s_base64, <<"a">>, <<<<"H", "O", "G", "B">>>>)
ImgBad == Part(s_image_png, s_base64, <<"b">>, <<<<"H", "O", "G">>>>)
ImgUnsupported == Part(s_image_gif, s_x_uuencode, <<"c">>, <<<<"H", "O", "G", "B">>>>)
TxtUnsupported == Part(s_text_plain, s_x_uuencode, <<"t">>, <<<<"Q", "U", "J", "D">>>>)
TxtB64Bad == Part(s_text_plain, s_base64, <<"u">>, <<<<"Q", "U", "J">>>>)
TxtB64Ok == Part(s_text_plain, s_base64, <<"v">>, <<<<"Q", "U", "J", "D">>>>)
TxtQp == Part(s_text_plain, s_quoted_printable, <<"w">>, <<<<"=", "4", "1", "B">>>>)

PartDescs == {HtmlRef, HtmlEmpty, HtmlPlain, ImgOk, ImgBad, ImgUnsupported,
              TxtUnsupported, TxtB64Bad, TxtB64Ok, TxtQp}

MaxParts == 2
MaxReuseParts == 1

SeqsUpTo(S, n) == UNION { [1..k -> S] : k \in 0..n }

\* Documents with a boundary declaration, and documents without one or
\* with an empty one.
Docs ==
    { [decl |-> "ok", parts |-> ps] : ps \in SeqsUpTo(PartDescs, MaxParts) }
    \cup { [decl |-> dc, parts |-> ps] :
             dc \in {"none", "empty"}, ps \in {<<>>, <<HtmlRef>>} }

\* The documents handed to set_mhtml_content.
ReuseDocs == { d \in Docs : Len(d.parts) <= MaxReuseParts }

Init == InitParser(Docs, {TRUE})

Next ==
    \/ Parse
    \/ \E fails \in SUBSET WriteAttempts(dataset) : ExtractImages(fails)
    \/ \E embedded_images \in BOOLEAN : GetHtml(embedded_images)

Spec == Init /\ [][Next]_vars

\* ---- one parser handed several documents ----
InitReuse == InitParser(Docs, {TRUE})

NextReuse ==
    \/ \E d \in ReuseDocs : SetMhtmlContent(d)
    \/ Parse

SpecReuse == InitReuse /\ [][NextReuse]_vars

\* ---- documents of image parts, for extract_images ----
ImagePayloads == { <<<<"H", "O", "G", "B">>>>, <<<<"L", "H", "B", "H">>>>, <<<<"H", "O">>, <<"G", "B">>>>, <<<<"H", "O", "G">>>> }

ImagePartDescs ==
    { Part(s_image_png, s_base64, <<"a">>, pl) : pl \in ImagePayloads }
    \cup { ImgBad, Part(s_image_png, s_base64, <<"b">>, <<<<"H", "O", "G", "B">>>>) }

MaxImageParts == 3

ImageDocs ==
    { [decl |-> "ok", parts |-> ps] :
        ps \in SeqsUpTo(ImagePartDescs, MaxImageParts) }

InitExtract == InitParser(ImageDocs, {TRUE})

NextExtract ==
    \/ Parse
    \/ \E fails \in SUBSET WriteAttempts(dataset) : ExtractImages(fails)

SpecExtract == InitExtract /\ [][NextExtract]_vars

\* ---- documents of one html part and two image parts, for get_html ----
RefNames == {<<"a">>, <<"b">>}

\* The shapes of a reference to name n.
RefShapes(n) ==
    { s_src_dq \o s_cid \o n \o Quote,
      s_src_dq \o n \o Quote,
      s_src_sq \o n \o Apos,
      s_src_sq \o s_cid \o n \o Apos,
      s_src_dq \o n \o s_dat \o Quote }

Refs == UNION { RefShapes(n) : n \in RefNames } \cup { <<"S", "R", "C", "=", "\"", "C", "I", "D", ":", "A", "\"">> }

MaxRefs == 2

HtmlTexts == { Concat(rs) : rs \in SeqsUpTo(Refs, MaxRefs) \ {<<>>} }

HtmlDocs ==
    { [decl |-> "ok",
       parts |-> <<Part(s_text_html, <<>>, <<>>, <<h>>), ImgOk, ImgBad>>] :
        h \in HtmlTexts }

InitHtml == InitParser(HtmlDocs, BOOLEAN)

NextHtml ==
    \/ Parse
    \/ \E fails \in SUBSET WriteAttempts(dataset) : ExtractImages(fails)
    \/ \E embedded_images \in BOOLEAN : GetHtml(embedded_images)

SpecHtml == InitHtml /\ [][NextHtml]_vars

\* ------------------------------------------------------------------------
\* Properties of MHTMLParser
\* ------------------------------------------------------------------------
PlainHtmlReturned ==
    ret.op = "get_html" /\ ~ret.embedded /\ ret.raised = None

\* Some id of the registry is name, compared as the patterns compare.
Registered(name) ==
    \E i \in 1..Len(image_paths) : ToLower(image_paths[i].name) = ToLower(name)

\* The number of references to name in html, in the shapes of parser.py:141-148.
RefCount(html, name) ==
    SumSeq([k \in 1..6 |-> CountI(html, FixPatterns(name)[k])])

\* The reference shapes of get_html for name n: src="cid:n" and src="n"
\* in both quote styles, and the .dat-suffixed variants.
ReferenceShapes(n) ==
    { s_src_dq \o s_cid \o n \o Quote,
      s_src_dq \o n \o Quote,
      s_src_sq \o s_cid \o n \o Apos,
      s_src_sq \o n \o Apos,
      s_src_dq \o s_cid \o n \o s_dat \o Quote,
      s_src_dq \o n \o s_dat \o Quote,
      s_src_sq \o s_cid \o n \o s_dat \o Apos,
      s_src_sq \o n \o s_dat \o Apos }

\* What holds of _fix_html_paths: with an empty registry the html is
\* returned unchanged, the references to ids absent from the registry are
\* left as they are, and no reference in one of the six patterns of
\* parser.py:141-148 to an id of the registry remains.
RegistryDecidesPatterns ==
    PlainHtmlReturned =>
        LET html == FirstHtmlContent(dataset) IN
        /\ image_paths = <<>> => ret.value = html
        /\ \A n \in RefNames : \A shape \in ReferenceShapes(n) :
              ~Registered(n) => CountI(ret.value, shape) = CountI(html, shape)
        /\ \A i \in 1..Len(image_paths) :
              /\ RefCount(ret.value, image_paths[i].name) = 0
              /\ RefCount(html, image_paths[i].name) > 0 =>
                    \E j \in 1..Len(image_paths) :
                        OccursI(ret.value, ImagesSrc(image_paths[j].value))

\* C3 as stated: get_html(embedded=false) rewrites a reference only if its
\* id is in the registry at the call: with an empty registry (before the
\* first successful extract_images) it returns the first text/html part
\* unchanged, it leaves the references to ids absent from the registry as
\* they are, and after extract_images no reference, in any of the reference
\* shapes, to a successfully extracted image remains.
C3_ReferencesFollowRegistry ==
    PlainHtmlReturned =>
        LET html == FirstHtmlContent(dataset) IN
        /\ image_paths = <<>> => ret.value = html
        /\ \A n \in RefNames : \A shape \in ReferenceShapes(n) :
              ~Registered(n) => CountI(ret.value, shape) = CountI(html, shape)
        /\ \A i \in 1..Len(image_paths) :
              \A shape \in ReferenceShapes(image_paths[i].name) :
                  CountI(ret.value, shape) = 0

PartFilename(part) ==
    GenerateImageFilename(part.name, part.content, part.content_type)

PartImage(part) == B64Decode(RemoveWhitespace(part.content))

\* The decode or the write of part i failed in the last extract_images.
ExtractFailed(i) == ~PartImage(dataset[i]).ok \/ i \in write_failed

Extractables == {i \in 1..Len(dataset) : IsExtractable(dataset[i])}

\* C4: when extract_images has returned, it returned the registry; every
\* image part with a resource id whose decode or write failed has an entry
\* in the Missing-Resource Log under its id, and its id is in the registry
\* only if another part of that id succeeded; every other image part with a
\* resource id is registered and its file is written, with the bytes of a
\* part of that filename that succeeded.
C4_FailuresIsolated ==
    ret.op = "extract_images" =>
        /\ ret.raised = None
        /\ ret.value = image_paths
        /\ \A i \in Extractables :
              IF ExtractFailed(i)
              THEN /\ DictHas(missing_images, dataset[i].name)
                   /\ DictHas(image_paths, dataset[i].name) =>
                         \E j \in Extractables :
                             /\ dataset[j].name = dataset[i].name
                             /\ ~ExtractFailed(j)
              ELSE /\ DictHas(image_paths, dataset[i].name)
                   /\ DictHas(images_dir, PartFilename(dataset[i]))
                   /\ \E j \in Extractables :
                         /\ ~ExtractFailed(j)
                         /\ PartFilename(dataset[j]) = PartFilename(dataset[i])
                         /\ DictGet(images_dir, PartFilename(dataset[i]))
                              = PartImage(dataset[j]).bytes

\* extract_images has returned after a part that failed between two parts,
\* of other ids, that are registered.
C4_Witness ==
    /\ ret.op = "extract_images"
    /\ \E i, j, k \in Extractables :
          /\ i < j /\ j < k
          /\ ExtractFailed(j)
          /\ ~DictHas(image_paths, dataset[j].name)
          /\ DictHas(missing_images, dataset[j].name)
          /\ ~ExtractFailed(i) /\ ~ExtractFailed(k)
          /\ DictHas(image_paths, dataset[i].name)
          /\ DictHas(image_paths, dataset[k].name)

\* The transfer encodings parse() decodes (parser.py:95-99).
Supported(cte) == ToLower(cte) \in {<<>>, s_base64, s_quoted_printable}

MalformedBase64(part) ==
    /\ ToLower(part.cte) = s_base64
    /\ ~B64Decode(RemoveWhitespace(JoinLines(part.payload))).ok

\* C5 as stated: once a document is parsed and its images are extracted
\* (the processing of split_file), every part with a resource id whose
\* transfer encoding is unsupported or whose base64 payload is malformed
\* has an entry in the Missing-Resource Log under its id, and parse() and
\* extract_images did not raise.
C5_BadPartLogged ==
    (ret.op = "extract_images" /\ doc.decl = "ok" /\ dataset # <<>>) =>
        /\ ret.raised = None
        /\ \A i \in 1..Len(doc.parts) :
              LET part == doc.parts[i] IN
              (part.cid # <<>> /\ (~Supported(part.cte) \/ MalformedBase64(part)))
                  => DictHas(missing_images, part.cid)

\* C6 as stated: when parse() has failed for want of a boundary, the
\* dataset is empty.
C6_NoBoundaryEmptyDataset ==
    (ret.op = "parse" /\ ret.raised = NoBoundaryError) => dataset = <<>>

HasHtmlPart == \E i \in 1..Len(dataset) : dataset[i].content_type = s_text_html

\* C7 as stated: get_html fails with the ContentError exactly when the
\* dataset has no part of type text/html, in both embedding modes.
C7_ContentErrorIffNoHtmlPart ==
    ret.op = "get_html" =>
        /\ ~HasHtmlPart => ret.raised = NoHtmlError
        /\ HasHtmlPart => ret.raised = None

\* The four reference shapes of C8 for name n.
EmbedShapes(n) ==
    { s_src_dq \o s_cid \o n \o Quote,
      s_src_dq \o n \o Quote,
      s_src_sq \o s_cid \o n \o Apos,
      s_src_sq \o n \o Apos }

\* C8 as stated: in what get_html(embedded=true) returns (decode_images
\* set), no reference to an image part is left, in the double-quoted or the
\* single-quoted form, with or without cid:, in any case of the letters.
C8_AllShapesEmbedded ==
    (ret.op = "get_html" /\ ret.embedded /\ ret.raised = None /\ decode_images)
        => \A i \in 1..Len(dataset) :
              (IsImageType(dataset[i].content_type) /\ dataset[i].name # <<>>)
                  => \A shape \in EmbedShapes(dataset[i].name) :
                        CountI(ret.value, shape) = 0

\* C9 as stated: of two image parts processed by extract_images that have
\* the same name, those with different bytes have different generated
\* filenames, and those with the same content type and the same bytes have
\* the same generated filename.
C9_FilenamesFollowBytes ==
    ret.op = "extract_images" =>
        \A i, j \in Extractables :
            (/\ dataset[i].name = dataset[j].name
             /\ PartImage(dataset[i]).ok /\ PartImage(dataset[j]).ok)
            => /\ PartImage(dataset[i]).bytes # PartImage(dataset[j]).bytes
                    => PartFilename(dataset[i]) # PartFilename(dataset[j])
               /\ (/\ PartImage(dataset[i]).bytes = PartImage(dataset[j]).bytes
                   /\ dataset[i].content_type = dataset[j].content_type)
                    => PartFilename(dataset[i]) = PartFilename(dataset[j])

\* ------------------------------------------------------------------------
\* _save_html_file run again on what it wrote
\* ------------------------------------------------------------------------
\* _save_html_file (splitter.py:123-132) handed the content of the file it
\* wrote, with the same registry.
ResaveHtmlFile ==
    /\ pc = "done"
    /\ save_content' = save_written
    /\ save_written' = SaveRewrite(save_written, image_paths)
    /\ pc' = "resaved"
    /\ UNCHANGED <<image_paths, splitVars, parserVars>>

NextResave ==
    \/ SaveHtmlFile
    \/ ResaveHtmlFile

SpecResave == InitSave /\ [][NextResave]_vars

\* C11 as stated: the rewrite of _save_html_file applied to a content that
\* was already rewritten with the same registry substitutes nothing and
\* gives the content back unchanged, for every content and every registry.
C11_RewriteIdempotent ==
    pc = "resaved" => save_written = save_content

\* ------------------------------------------------------------------------
\* MHTMLParser.parse, line by line
\* ------------------------------------------------------------------------
\* parse up to the loop (parser.py:218-231).
ParseBegin ==
    /\ pc = "ready"
    /\ IF mhtml_content = <<>>
       THEN /\ ret' = Raised("parse", NoContentError)
            /\ UNCHANGED <<boundary, segmentVars, pc>>
       ELSE /\ boundary' = FindBoundary(mhtml_content)
            /\ IF boundary' = <<>>
               THEN /\ ret' = Raised("parse", NoBoundaryError)
                    /\ UNCHANGED <<segmentVars, pc>>
               ELSE /\ line_index' = 0
                    /\ cur_part' = <<>>
                    /\ cur_in_content' = FALSE
                    /\ processed' = <<>>
                    /\ pc' = "parsing"
                    /\ UNCHANGED ret
    /\ UNCHANGED <<mhtml_content, doc, decode_images, dataset, missing_images,
                   image_paths, images_dir, write_failed>>
    /\ UNCHANGED <<splitVars, saveVars>>

\* The buffers handed to _process_part after one more test of
\* parser.py:235 and 248.
Handed(buffers, buffer, reading) ==
    IF buffer # <<>> /\ reading THEN Append(buffers, buffer) ELSE buffers

\* One round of the loop of parser.py:233-246 that puts a line into the
\* buffer whether a boundary line was read or not.
ParseLineNoGate ==
    /\ pc = "parsing"
    /\ line_index < Len(mhtml_content)
    /\ LET line == mhtml_content[line_index + 1] IN
       IF HoldsBoundary(line, boundary)
       THEN /\ dataset' = ClosePart(dataset, cur_part, cur_in_content)
            /\ processed' = Handed(processed, cur_part, cur_in_content)
            /\ cur_part' = <<>>
            /\ cur_in_content' = TRUE
       ELSE /\ cur_part' = Append(cur_part, line)
            /\ UNCHANGED <<dataset, processed, cur_in_content>>
    /\ line_index' = line_index + 1
    /\ UNCHANGED <<mhtml_content, doc, decode_images, boundary, missing_images,
                   image_paths, images_dir, write_failed, ret>>
    /\ UNCHANGED <<splitVars, saveVars, pc>>

\* One round of the loop of parser.py:233-246.
ParseLine ==
    /\ pc = "parsing"
    /\ line_index < Len(mhtml_content)
    /\ LET line == mhtml_content[line_index + 1] IN
       IF HoldsBoundary(line, boundary)
       THEN /\ dataset' = ClosePart(dataset, cur_part, cur_in_content)
            /\ processed' = Handed(processed, cur_part, cur_in_content)
            /\ cur_part' = <<>>
            /\ cur_in_content' = TRUE
       ELSE /\ cur_part' = IF cur_in_content THEN Append(cur_part, line)
                           ELSE cur_part
            /\ UNCHANGED <<dataset, processed, cur_in_content>>
    /\ line_index' = line_index + 1
    /\ UNCHANGED <<mhtml_content, doc, decode_images, boundary, missing_images,
                   image_paths, images_dir, write_failed, ret>>
    /\ UNCHANGED <<splitVars, saveVars, pc>>

\* After the loop (parser.py:248-254).
ParseEnd ==
    /\ pc = "parsing"
    /\ line_index = Len(mhtml_content)
    /\ dataset' = ClosePart(dataset, cur_part, cur_in_content)
    /\ processed' = Handed(processed, cur_part, cur_in_content)
    /\ ret' = Returned("parse", <<>>)
    /\ pc' = "parsed"
    /\ UNCHANGED <<line_index, cur_part, cur_in_content>>
    /\ UNCHANGED <<mhtml_content, doc, decode_images, boundary, missing_images,
                   image_paths, images_dir, write_failed>>
    /\ UNCHANGED <<splitVars, saveVars>>

\* ---- texts of a few lines, in every order ----
SegmentLines ==
    { Line("other", <<>>),
      Line("decl", BoundaryToken),
      Line("delim", BoundaryToken),
      Line("ctype", s_text_html),
      Line("blank", <<>>),
      Line("data", <<"x">>),
      Line("data", <<"x", "A", "A", "A">>) }

MaxSegmentLines == 5

SegmentTexts == SeqsUpTo(SegmentLines, MaxSegmentLines)

InitSegment ==
    /\ mhtml_content \in SegmentTexts
    /\ doc = NoDoc
    /\ decode_images = TRUE
    /\ dataset = <<>>
    /\ boundary = <<>>
    /\ missing_images = <<>>
    /\ image_paths = <<>>
    /\ images_dir = <<>>
    /\ write_failed = {}
    /\ ret = NoRet
    /\ pc = "ready"
    /\ IdleSplit /\ IdleSave /\ IdleSegment

NextSegment ==
    \/ ParseBegin
    \/ ParseLine
    \/ ParseEnd

SpecSegment == InitSegment /\ [][NextSegment]_vars

\* The lines of ls that hold the boundary token.
BoundaryAt(ls, b) == {k \in 1..Len(ls) : HoldsBoundary(ls[k], b)}

\* The first boundary line after line j, the end of ls when there is none.
NextBoundary(ls, b, j) ==
    IF \E k \in BoundaryAt(ls, b) : k > j
    THEN CHOOSE k \in BoundaryAt(ls, b) :
            k > j /\ \A m \in BoundaryAt(ls, b) : m > j => k <= m
    ELSE Len(ls) + 1

\* The non-empty runs of lines between one boundary line of ls and the
\* next, or the end of ls, in the order of ls.
Runs(ls, b) ==
    SelectSeq([j \in 1..Len(ls) |->
                  IF j \in BoundaryAt(ls, b)
                  THEN SubSeq(ls, j + 1, NextBoundary(ls, b, j) - 1)
                  ELSE <<>>],
              LAMBDA run : run # <<>>)

\* The parts of the buffers that have a content type or a resource id.
Kept(buffers) ==
    SelectSeq([k \in 1..Len(buffers) |-> ProcessPart(buffers[k])],
              LAMBDA part : part.content_type # <<>> \/ part.name # <<>>)

\* C12: while parse() reads the lines, the open buffer is empty until a
\* line holding the boundary token was read; the buffers handed to
\* _process_part, followed by the open buffer when it holds a line, are the
\* non-empty runs of lines between the boundary lines read so far, each
\* once and in input order; when parse() has returned, every run of the
\* text, the last one up to the end of input included, was handed over
\* once; the dataset lists the kept parts of these buffers in input order.
C12_SegmentsAreRuns ==
    pc \in {"parsing", "parsed"} =>
        LET seen == SubSeq(mhtml_content, 1, line_index) IN
        /\ cur_in_content = (BoundaryAt(seen, boundary) # {})
        /\ ~cur_in_content => cur_part = <<>> /\ processed = <<>>
        /\ pc = "parsing" =>
              Handed(processed, cur_part, cur_in_content) = Runs(seen, boundary)
        /\ pc = "parsed" =>
              /\ line_index = Len(mhtml_content)
              /\ processed = Runs(mhtml_content, boundary)
        /\ dataset = Kept(processed)

\* parse() has returned for a text with a line before the first boundary
\* line, two buffers handed over, the second one at the end of input, and
\* a part kept.
C12_Witness ==
    /\ pc = "parsed"
    /\ ~HoldsBoundary(mhtml_content[1], boundary)
    /\ ~HoldsBoundary(mhtml_content[Len(mhtml_content)], boundary)
    /\ Len(processed) = 2
    /\ dataset # <<>>

\* ------------------------------------------------------------------------
\* MHTMLSplitter.split_file down to the size accounting of its lines
\* ------------------------------------------------------------------------
\* str.split('\n')
RECURSIVE SplitNewline(_, _)
SplitNewline(s, line) ==
    IF s = <<>> THEN <<line>>
    ELSE IF Head(s) = "\n" THEN <<line>> \o SplitNewline(Tail(s), <<>>)
    ELSE SplitNewline(Tail(s), Append(line, Head(s)))

\* html_content.split('\n') of splitter.py:72; html_content is what
\* get_html(embedded_images=False) returned at splitter.py:44, before
\* extract_images filled the registry.
HtmlLines(ds) == SplitNewline(FixHtmlPaths(FirstHtmlContent(ds), <<>>), <<>>)

\* A line as the loop of _split_large_file sees it: its byte length
\* (splitter.py:73) and the registry names that occur in it
\* (splitter.py:119).
LineOf(text, registry) ==
    [len |-> Len(text),
     refs |-> {registry[i].name : i \in {j \in 1..Len(registry) :
                                          Occurs(text, registry[j].name)}},
     text |-> text]

\* os.path.exists(img_path) and os.path.getsize(img_path) of
\* splitter.py:119-120 for the paths of the registry.  A path of the
\* registry is a bare filename (parser.py:128), which the file system
\* resolves against the working directory: it names the file that
\* extract_images wrote only when the working directory is the images
\* directory.
PathSizes(registry, dir, cwd_is_images_dir) ==
    [n \in {registry[i].name : i \in 1..Len(registry)} |->
        IF cwd_is_images_dir /\ DictHas(dir, DictGet(registry, n))
        THEN Len(DictGet(dir, DictGet(registry, n)))
        ELSE -1]

\* split_file (splitter.py:32-58) down to the loop of _split_large_file
\* (splitter.py:63-69), for a text longer than max_size.  The parser is a
\* new one (splitter.py:39): its dataset and its log start empty.
SplitFile(fails, cwd_is_images_dir) ==
    /\ pc = "ready"
    /\ LET b == FindBoundary(mhtml_content)
           ds == Segment(mhtml_content, b, <<>>, FALSE, <<>>)
           st == ExtractLoop([paths |-> <<>>, missing |-> <<>>,
                              dir |-> images_dir], ds, 1, fails)
       IN  IF mhtml_content = <<>>
           THEN /\ ret' = Raised("split_file", NoContentError)
                /\ UNCHANGED <<boundary, dataset, missing_images, image_paths,
                               images_dir, write_failed, splitVars, pc>>
           ELSE IF b = <<>>
           THEN /\ ret' = Raised("split_file", NoBoundaryError)
                /\ boundary' = b
                /\ UNCHANGED <<dataset, missing_images, image_paths,
                               images_dir, write_failed, splitVars, pc>>
           ELSE IF FirstHtmlContent(ds) = <<>>
           THEN /\ ret' = Raised("split_file", NoHtmlError)
                /\ boundary' = b
                /\ dataset' = ds
                /\ UNCHANGED <<missing_images, image_paths, images_dir,
                               write_failed, splitVars, pc>>
           ELSE /\ fails \subseteq WriteAttempts(ds)
                /\ boundary' = b
                /\ dataset' = ds
                /\ image_paths' = st.paths
                /\ missing_images' = st.missing
                /\ images_dir' = st.dir
                /\ write_failed' = fails
                /\ image_sizes' = PathSizes(st.paths, st.dir, cwd_is_images_dir)
                /\ html_lines' = <<>>
                /\ current_size' = 0
                /\ current_content' = <<>>
                /\ file_counter' = 1
                /\ output_files' = <<>>
                /\ pc' = "loop"
                /\ UNCHANGED <<max_size_mb, ret>>
    /\ UNCHANGED <<mhtml_content, doc, decode_images, saveVars, segmentVars>>

\* One iteration of the loop of splitter.py:72-91 on the next line of the
\* html.
SplitNextLine ==
    /\ Len(html_lines) < Len(HtmlLines(dataset))
    /\ SplitLine(LineOf(HtmlLines(dataset)[Len(html_lines) + 1], image_paths))

\* After the last line (splitter.py:93-101).
SplitLast ==
    /\ Len(html_lines) = Len(HtmlLines(dataset))
    /\ SplitFinish

\* ---- documents of an html part of a few lines and image parts ----
AccountLines == { <<"<", "i", "m", "g", " ", "s", "r", "c", "=", "\"", "c", "i", "d", ":", "a", "\"", ">">>, <<"<", "i", "m", "g", " ", "s", "r", "c", "=", "\"", "c", "i", "d", ":", "b", "\"", ">">>, <<"<", "p", ">">> }

MaxAccountLines == 3

AccountDocs ==
    { [decl |-> "ok", parts |-> <<Part(s_text_html, <<>>, <<>>, ls)>> \o imgs] :
        ls \in SeqsUpTo(AccountLines, MaxAccountLines),
        imgs \in {<<ImgOk>>, <<ImgOk, ImgBad>>, <<ImgBad>>} }

InitAccount == InitParser(AccountDocs, {TRUE})

NextAccount ==
    \/ \E fails \in SUBSET (1..3), cwd_is_images_dir \in BOOLEAN :
          SplitFile(fails, cwd_is_images_dir)
    \/ SplitNextLine
    \/ SplitLast

SpecAccount == InitAccount /\ [][NextAccount]_vars

\* The size on disk of the file extract_images wrote for name n.
ExtractedSize(n) == Len(DictGet(images_dir, DictGet(image_paths, n)))

\* C13 as stated: the running total of the open buffer is, for each of its
\* lines, the byte length of the line plus the on-disk size of the file of
\* every extracted image whose name the line holds; hence a line holding
\* the name of an extracted image of size s > 0 counts at least s bytes
\* more than its text.
C13_ImagesAccounted ==
    pc \in {"loop", "done"} =>
        current_size =
            SumSeq([i \in 1..Len(current_content) |->
                      current_content[i].len
                      + SumOver(current_content[i].refs,
                                [n \in current_content[i].refs |->
                                    ExtractedSize(n)])])

\* ------------------------------------------------------------------------
\* parse() on parts of every content type and transfer encoding
\* ------------------------------------------------------------------------
DecodeTypes == { s_text_plain, s_image_png }

DecodeEncodings == { <<>>, s_base64, s_quoted_printable, s_x_uuencode }

DecodePayloads == { <<<<"Q", "U", "J", "D">>>>, <<<<"Q", "U">>, <<"J", "D">>>>, <<<<"=", "4", "1", "B">>>>, <<<<"Q", "U", "J">>>> }

DecodePartDescs ==
    { Part(ctype, cte, <<"p">>, payload) :
        ctype \in DecodeTypes, cte \in DecodeEncodings,
        payload \in DecodePayloads }

MaxDecodeParts == 2

DecodeDocs ==
    { [decl |-> "ok", parts |-> ps] :
        ps \in SeqsUpTo(DecodePartDescs, MaxDecodeParts) }

InitDecode == InitParser(DecodeDocs, {TRUE})

NextDecode == Parse

SpecDecode == InitDecode /\ [][NextDecode]_vars

\* The payload of a part of a document: its content lines as
\* _process_part collects them, joined by line ends.
Payload(part) ==
    JoinLines([k \in 1..Len(part.payload) |-> Strip(part.payload[k])])

\* C14 as stated: after parse(), the content stored for an image/* part is
\* its payload, undecoded; for a part of another type it is the
\* base64-decoded text of the payload when the transfer encoding is base64
\* (and the payload decodes), the quoted-printable-decoded text when it is
\* quoted-printable, and the payload unchanged for any other or no
\* transfer encoding.
C14_DecodePolicy ==
    (ret.op = "parse" /\ ret.raised = None /\ Len(dataset) = Len(doc.parts)) =>
        \A i \in 1..Len(doc.parts) :
            LET part == doc.parts[i]
                content == dataset[i].content
                image == B64Decode(RemoveWhitespace(Payload(part)))
            IN  IF IsImageType(part.ctype)
                THEN content = Payload(part)
                ELSE CASE ToLower(part.cte) = s_base64 ->
                            image.ok => content = Utf8DecodeIgnore(image.bytes)
                       [] ToLower(part.cte) = s_quoted_printable ->
                            content = QuopriDecode(Payload(part))
                       [] OTHER -> content = Payload(part)

\* ------------------------------------------------------------------------
\* The output files of _split_large_file as a partition of the lines
\* ------------------------------------------------------------------------
\* The buffers of the files written, one after the other.
RECURSIVE ConcatBuffers(_)
ConcatBuffers(files) ==
    IF files = <<>> THEN <<>>
    ELSE files[1].buffer \o ConcatBuffers(Tail(files))

\* The lines are kept whole and in order, no file left out or doubled
\* (holds).
LinesPartitioned ==
    pc = "done" =>
        /\ ConcatBuffers(output_files) = html_lines
        /\ \A i \in 1..Len(output_files) : output_files[i].counter = i

\* C15: after the multi-file path the buffers of the output files, in the
\* order of the returned paths, are the lines of the rendered HTML cut into
\* consecutive runs: concatenated they give the line sequence, the counters
\* in the names are 1..n, and no file is written with an empty buffer.
C15_FilesPartitionLines ==
    pc = "done" =>
        /\ ConcatBuffers(output_files) = html_lines
        /\ \A i \in 1..Len(output_files) :
              /\ output_files[i].counter = i
              /\ output_files[i].buffer # <<>>

\* ------------------------------------------------------------------------
\* The dataset over several parse() calls on one parser
\* ------------------------------------------------------------------------
\* The parts of the content the parser holds, as one parse() of a fresh
\* parser gives them.
PartsOfContent ==
    Segment(mhtml_content, FindBoundary(mhtml_content), <<>>, FALSE, <<>>)

\* C16: after any sequence of set_mhtml_content and parse calls on one
\* parser, a parse() that returned leaves in the dataset exactly the ordered
\* parts of the content it was handed, none from an earlier parse() and none
\* twice, and a parse() that failed leaves no part in the dataset.
C16_DatasetOfLastParse ==
    ret.op = "parse" =>
        /\ ret.raised = None => dataset = PartsOfContent
        /\ ret.raised # None => dataset = <<>>

====
